---- MODULE Spec2Model ----
(***************************************************************************)
(* EyeLura storefront backend: the data-service facade, the in-memory      *)
(* Mock Store, the Google Sheets store and the order pipeline that runs    *)
(* on top of them.                                                         *)
(*                                                                         *)
(* Every store call of the source is an awaited promise (a timer in the    *)
(* Mock Store, a remote call in the Spreadsheet Store).  An action of the  *)
(* model is the code that runs between two such suspension points; other   *)
(* requests may run between two actions of one request.                    *)
(*                                                                         *)
(* Amounts are whole rupees; names and skus are kept as strings.           *)
(***************************************************************************)
EXTENDS Integers, Sequences, FiniteSets, TLC

VARIABLES
    env,              \* process.env: the three Google configuration values
    phase,            \* "boot" | "running" | "crashed" (module loading)
    useGoogleSheets,  \* DataService.useGoogleSheets
    activeService,    \* DataService.activeService: "mock" | "sheets"
    products,         \* MockDataService.products
    orders,           \* MockDataService.orders
    sheetRows,        \* data rows of the Products sheet (header row left out)
    sheetOrders,      \* rows of the Orders sheet (header row included)
    pc,               \* position of every request
    kind,             \* "order" | "validate" for every request
    items,            \* the items of every request
    idx,              \* the item a request is working on
    validation,       \* the validateStock result a request is building
    lineItems,        \* the order line items a request has priced
    fetched,          \* the value a request read at its last store read
    order,            \* the order record a request has built
    response,         \* the HTTP response of a request
    lastCall          \* the last direct store call and what it returned

vars == <<env, phase, useGoogleSheets, activeService, products, orders,
          sheetRows, sheetOrders, pc, kind, items, idx, validation,
          lineItems, fetched, order, response, lastCall>>

facadeVars == <<env, phase, useGoogleSheets, activeService>>
mockVars == <<products, orders>>
sheetVars == <<sheetRows, sheetOrders>>
reqVars == <<pc, kind, items, idx, validation, lineItems, fetched, order,
             response>>

(***************************************************************************)
(* Bounds of the model.                                                    *)
(***************************************************************************)
MaxItems == 2        \* items per request
MaxRows == 2         \* data rows of a generated product table
MaxCatalog == 5      \* products of a generated catalog
MaxLogged == 1       \* orders logged by direct logOrder calls
MaxNewStock == 1     \* newStock of a direct updateProductStock is 0..MaxNewStock

Requests == {"r1", "r2"}

(***************************************************************************)
(* process.env                                                             *)
(***************************************************************************)
EnvVars == {"GOOGLE_SHEETS_SPREADSHEET_ID", "GOOGLE_SERVICE_ACCOUNT_EMAIL",
            "GOOGLE_PRIVATE_KEY"}

\* "missing" is undefined, "blank" is a string of spaces, "example" is the
\* value of the example environment file, "real" is a working credential.
EnvValues == {"missing", "empty", "blank", "your_value_here", "example", "real"}

\* JavaScript truthiness of a configuration string
Truthy(v) == v \notin {"missing", "empty"}

\* value.trim() !== ''
TrimNonEmpty(v) == v \notin {"empty", "blank"}

shouldUseGoogleSheets(e) ==
    \A v \in EnvVars :
        Truthy(e[v]) /\ TrimNonEmpty(e[v]) /\ e[v] # "your_value_here"

\* GoogleSheetService.initializeAuth throws when a value is falsy
initializeAuthThrows(e) ==
    \/ ~Truthy(e["GOOGLE_SERVICE_ACCOUNT_EMAIL"])
    \/ ~Truthy(e["GOOGLE_PRIVATE_KEY"])
    \/ ~Truthy(e["GOOGLE_SHEETS_SPREADSHEET_ID"])

(***************************************************************************)
(* Mock Store: the seeded products                                         *)
(***************************************************************************)
SeedProducts == <<
    [id |-> 1, name |-> "Aviator Prestige",   sku |-> "AVT-001", price |-> 1329, stock |-> 45, inStock |-> TRUE],
    [id |-> 2, name |-> "Metropolitan Frame", sku |-> "MET-002", price |-> 1289, stock |-> 32, inStock |-> TRUE],
    [id |-> 3, name |-> "Artisan Round",      sku |-> "ART-003", price |-> 1459, stock |-> 28, inStock |-> TRUE],
    [id |-> 4, name |-> "Executive Titan",    sku |-> "EXE-004", price |-> 1599, stock |-> 15, inStock |-> TRUE],
    [id |-> 5, name |-> "Classic Wayfarer",   sku |-> "WAY-005", price |-> 1199, stock |-> 67, inStock |-> TRUE],
    [id |-> 6, name |-> "Sport Vision Pro",   sku |-> "SPT-006", price |-> 1799, stock |-> 23, inStock |-> TRUE] >>

\* this.products.findIndex(p => p.id === parseInt(productId)); 0 stands for -1
findIndex(ps, productId) ==
    IF \E i \in 1..Len(ps) : ps[i].id = productId
    THEN CHOOSE i \in 1..Len(ps) :
             /\ ps[i].id = productId
             /\ \A j \in 1..(i - 1) : ps[j].id # productId
    ELSE 0

NoProduct == [id |-> 0, name |-> "", sku |-> "", price |-> 0, stock |-> 0, inStock |-> FALSE]

\* MockDataService.getProductById: the product, or null (NoProduct)
Mock_getProductById(ps, productId) ==
    IF findIndex(ps, productId) = 0 THEN NoProduct ELSE ps[findIndex(ps, productId)]

\* variant: inStock computed with >= instead of >
Mock_updateProductStock_geq(ps, productId, newStock) ==
    [ps EXCEPT ![findIndex(ps, productId)] =
        [@ EXCEPT !.stock = newStock, !.inStock = (newStock >= 0)]]

\* MockDataService.updateProductStock: the products after the call
Mock_updateProductStock(ps, productId, newStock) ==
    [ps EXCEPT ![findIndex(ps, productId)] =
        [@ EXCEPT !.stock = newStock, !.inStock = (newStock > 0)]]

\* variant: the switch without its first case
resetStock_noCase1(p) ==
    CASE p.id = 2 -> 32
      [] p.id = 3 -> 28
      [] p.id = 4 -> 15
      [] p.id = 5 -> 67
      [] p.id = 6 -> 23
      [] OTHER -> p.stock

\* the switch statement of MockDataService.resetData
resetStock(p) ==
    CASE p.id = 1 -> 45
      [] p.id = 2 -> 32
      [] p.id = 3 -> 28
      [] p.id = 4 -> 15
      [] p.id = 5 -> 67
      [] p.id = 6 -> 23
      [] OTHER -> p.stock

\* variant: inStock not recomputed
Mock_resetData_staleInStock(ps) ==
    [i \in 1..Len(ps) |-> [ps[i] EXCEPT !.stock = resetStock(ps[i])]]

\* MockDataService.resetData: the products after the call
Mock_resetData(ps) ==
    [i \in 1..Len(ps) |->
        [ps[i] EXCEPT !.stock = resetStock(ps[i]),
                      !.inStock = (resetStock(ps[i]) > 0)]]

(***************************************************************************)
(* Spreadsheet Store.  A cell holds a number or something parseInt cannot  *)
(* read (an empty or non-numeric cell).                                    *)
(***************************************************************************)
Num(n) == [num |-> TRUE, v |-> n]
BadCell == [num |-> FALSE, v |-> 0]

\* variant: no `|| dflt`, an unreadable cell counts as 0
parseIntOr_noDefault(cell, dflt) == IF cell.num THEN cell.v ELSE 0

\* parseInt(cell) || dflt : NaN and 0 are both falsy
parseIntOr(cell, dflt) == IF cell.num /\ cell.v # 0 THEN cell.v ELSE dflt

\* row[1] || 'Unnamed Product'
nameOr(name) == IF name = "" THEN "Unnamed Product" ELSE name

\* row[6] || `SKU-${index + 1}`
skuOr(sku, i) == IF sku = "" THEN "SKU-" \o ToString(i) ELSE sku

\* GoogleSheetService.getProducts: one product per data row, in row order
Sheets_getProducts(rows) ==
    [i \in 1..Len(rows) |->
        [id      |-> parseIntOr(rows[i].id, i),
         name    |-> nameOr(rows[i].name),
         sku     |-> skuOr(rows[i].sku, i),
         price   |-> parseIntOr(rows[i].price, 0),
         stock   |-> parseIntOr(rows[i].stock, 0),
         inStock |-> (rows[i].stock.num /\ rows[i].stock.v > 0)]]

\* GoogleSheetService.getProductById: products.find over a fresh getProducts
Sheets_getProductById(rows, productId) ==
    Mock_getProductById(Sheets_getProducts(rows), productId)

\* the row search of GoogleSheetService.updateProductStock over column A:
\* the first data row whose raw id cell parses to productId; 0 when none
Sheets_findRow(rows, productId) ==
    IF \E i \in 1..Len(rows) : rows[i].id.num /\ rows[i].id.v = productId
    THEN CHOOSE i \in 1..Len(rows) :
             /\ rows[i].id.num /\ rows[i].id.v = productId
             /\ \A j \in 1..(i - 1) : ~(rows[j].id.num /\ rows[j].id.v = productId)
    ELSE 0

\* variant: the write goes to the price column (E) instead of the stock
\* column (F)
Sheets_writeStock_priceColumn(rows, row, newStock) ==
    [rows EXCEPT ![row] = [@ EXCEPT !.price = Num(newStock)]]

\* the single-cell write of GoogleSheetService.updateProductStock
Sheets_writeStock(rows, row, newStock) ==
    [rows EXCEPT ![row] = [@ EXCEPT !.stock = Num(newStock)]]

\* two product tables: a well-formed one, and one whose only row has an
\* unreadable id, no name and no sku
SheetA == <<
    [id |-> Num(1), name |-> "Sheet Aviator", sku |-> "SH-1", price |-> Num(999), stock |-> Num(45)],
    [id |-> Num(7), name |-> "Sheet Round",   sku |-> "SH-7", price |-> Num(998), stock |-> Num(1)] >>

SheetB == <<
    [id |-> BadCell, name |-> "", sku |-> "", price |-> Num(998), stock |-> Num(1)] >>

InitialSheets == {SheetA, SheetB}

OrdersHeader == [header |-> TRUE, orderId |-> "OrderID", items |-> <<>>,
                 totalAmount |-> 0, status |-> "Status"]

(***************************************************************************)
(* validateStock.  An error is the message the source pushes, kept as its  *)
(* parts: "Product with ID <productId> not found" or "Insufficient stock   *)
(* for <name>. Requested: <requested>, Available: <available>".            *)
(***************************************************************************)
EmptyValidation == [valid |-> TRUE, errors |-> <<>>, stockInfo |-> <<>>]

NotFoundError(item) ==
    [type |-> "not_found", productId |-> item.productId, name |-> "",
     requested |-> 0, available |-> 0]

InsufficientError(product, item) ==
    [type |-> "insufficient", productId |-> 0, name |-> product.name,
     requested |-> item.quantity, available |-> product.stock]

\* variant: sufficient computed with > instead of >=
StockInfo_strict(product, item) ==
    [productId |-> item.productId, productName |-> product.name,
     requestedQuantity |-> item.quantity, availableStock |-> product.stock,
     sufficient |-> (product.stock > item.quantity)]

\* variant: sufficient off by one
StockInfo_offByOne(product, item) ==
    [productId |-> item.productId, productName |-> product.name,
     requestedQuantity |-> item.quantity, availableStock |-> product.stock,
     sufficient |-> (product.stock + 1 >= item.quantity)]

\* the stockInfo object built in the loop of validateStock
StockInfo(product, item) ==
    [productId |-> item.productId, productName |-> product.name,
     requestedQuantity |-> item.quantity, availableStock |-> product.stock,
     sufficient |-> (product.stock >= item.quantity)]

\* variant: a missing product does not clear valid
Mock_validateItem_keepsValid(v, product, item) ==
    IF product = NoProduct
    THEN [v EXCEPT !.errors = Append(@, NotFoundError(item))]
    ELSE IF StockInfo(product, item).sufficient
         THEN [v EXCEPT !.stockInfo = Append(@, StockInfo(product, item))]
         ELSE [v EXCEPT !.valid = FALSE,
                        !.stockInfo = Append(@, StockInfo(product, item)),
                        !.errors = Append(@, InsufficientError(product, item))]

\* variant: a missing product pushes no error
Mock_validateItem_dropsError(v, product, item) ==
    IF product = NoProduct
    THEN [v EXCEPT !.valid = FALSE]
    ELSE IF StockInfo(product, item).sufficient
         THEN [v EXCEPT !.stockInfo = Append(@, StockInfo(product, item))]
         ELSE [v EXCEPT !.valid = FALSE,
                        !.stockInfo = Append(@, StockInfo(product, item)),
                        !.errors = Append(@, InsufficientError(product, item))]

\* the loop body of MockDataService.validateStock, product already fetched
Mock_validateItem(v, product, item) ==
    IF product = NoProduct
    THEN [v EXCEPT !.valid = FALSE,
                   !.errors = Append(@, NotFoundError(item))]
    ELSE IF StockInfo(product, item).sufficient
         THEN [v EXCEPT !.stockInfo = Append(@, StockInfo(product, item))]
         ELSE [v EXCEPT !.valid = FALSE,
                        !.stockInfo = Append(@, StockInfo(product, item)),
                        !.errors = Append(@, InsufficientError(product, item))]

\* the loop body of GoogleSheetService.validateStock
Sheets_validateItem(v, product, item) ==
    IF product = NoProduct
    THEN [v EXCEPT !.valid = FALSE,
                   !.errors = Append(@, NotFoundError(item))]
    ELSE IF StockInfo(product, item).sufficient
         THEN [v EXCEPT !.stockInfo = Append(@, StockInfo(product, item))]
         ELSE [v EXCEPT !.valid = FALSE,
                        !.stockInfo = Append(@, StockInfo(product, item)),
                        !.errors = Append(@, InsufficientError(product, item))]

RECURSIVE Sheets_validateLoop(_, _, _, _)
Sheets_validateLoop(v, ps, its, i) ==
    IF i > Len(its) THEN v
    ELSE Sheets_validateLoop(
             Sheets_validateItem(v, Mock_getProductById(ps, its[i].productId), its[i]),
             ps, its, i + 1)

\* GoogleSheetService.validateStock: one getProducts read, then the loop
Sheets_validateStock(rows, its) ==
    Sheets_validateLoop(EmptyValidation, Sheets_getProducts(rows), its, 1)

(***************************************************************************)
(* Order pipeline (the POST /api/orders handler).                          *)
(***************************************************************************)
MinItems == 1
MaxItemsPerOrder == 50
MinQuantity == 1
MaxQuantity == 100
FreeShippingThreshold == 999
FlatShipping == 99

\* the structural checks of the request body
validShape(its) ==
    /\ Len(its) >= MinItems /\ Len(its) <= MaxItemsPerOrder
    /\ \A i \in 1..Len(its) :
           /\ its[i].productId >= 1
           /\ its[i].quantity >= MinQuantity /\ its[i].quantity <= MaxQuantity

lineItem(product, item) ==
    [productId |-> item.productId, productName |-> product.name,
     sku |-> product.sku, quantity |-> item.quantity,
     unitPrice |-> product.price,
     totalPrice |-> product.price * item.quantity]

RECURSIVE subtotalOf(_)
subtotalOf(lines) ==
    IF lines = <<>> THEN 0
    ELSE Head(lines).totalPrice + subtotalOf(Tail(lines))

\* variant: free shipping only above the threshold
shippingCostOf_strict(subtotal) ==
    IF subtotal > FreeShippingThreshold THEN 0 ELSE FlatShipping

\* step 6: the shipping rule
shippingCostOf(subtotal) ==
    IF subtotal >= FreeShippingThreshold THEN 0 ELSE FlatShipping

NoOrder == [orderId |-> "", items |-> <<>>, subtotal |-> 0, shippingCost |-> 0,
            totalAmount |-> 0, status |-> ""]

buildOrder(r, lines) ==
    [orderId |-> r, items |-> lines, subtotal |-> subtotalOf(lines),
     shippingCost |-> shippingCostOf(subtotalOf(lines)),
     totalAmount |-> subtotalOf(lines) + shippingCostOf(subtotalOf(lines)),
     status |-> "pending"]

\* the row GoogleSheetService.logOrder appends
orderRow(o) ==
    [header |-> FALSE, orderId |-> o.orderId, items |-> o.items,
     totalAmount |-> o.totalAmount,
     status |-> IF o.status = "" THEN "pending" ELSE o.status]

(***************************************************************************)
(* Inputs                                                                  *)
(***************************************************************************)
\* product 1 is in every store; 7 is not a seeded product of the Mock Store
ItemIds == {1, 7}
Quantities == {1, 45}
ItemChoices == [productId : ItemIds, quantity : Quantities]
ItemLists == UNION {[1..n -> ItemChoices] : n \in 0..MaxItems}
\* newStock of a direct updateProductStock: small values and seed - 1
\* items with a client-supplied price: a token price, and the store's price
\* of product 1
ClientPrices == {1, SeedProducts[1].price}
PricedItems == [productId : ItemIds, quantity : Quantities, price : ClientPrices]

NewStocks == (0..MaxNewStock) \cup {SeedProducts[1].stock - 1}

NoFetch == [stock |-> 0, row |-> 0]
NoResponse == [status |-> 0, error |-> ""]
NoCall == [op |-> "", result |-> ""]

EnvAll(v) == [x \in EnvVars |-> v]

(***************************************************************************)
(* Initial states                                                          *)
(***************************************************************************)
InitStores ==
    /\ products = SeedProducts
    /\ orders = <<>>
    /\ sheetRows \in InitialSheets
    /\ sheetOrders = <<>>

InitRequests ==
    /\ pc = [r \in Requests |-> "idle"]
    /\ kind = [r \in Requests |-> "order"]
    /\ items = [r \in Requests |-> <<>>]
    /\ idx = [r \in Requests |-> 0]
    /\ validation = [r \in Requests |-> EmptyValidation]
    /\ lineItems = [r \in Requests |-> <<>>]
    /\ fetched = [r \in Requests |-> NoFetch]
    /\ order = [r \in Requests |-> NoOrder]
    /\ response = [r \in Requests |-> NoResponse]
    /\ lastCall = NoCall

\* the process after the modules are loaded and the facade is constructed,
\* for a configuration that selects the Mock Store and one that selects
\* the Spreadsheet Store
Init ==
    /\ env \in {EnvAll("your_value_here"), EnvAll("real")}
    /\ phase = "running"
    /\ useGoogleSheets = shouldUseGoogleSheets(env)
    /\ activeService = IF shouldUseGoogleSheets(env) THEN "sheets" ELSE "mock"
    /\ InitStores
    /\ (activeService = "mock" => sheetRows = SheetA)
    /\ InitRequests

\* the process before the modules are loaded, for every configuration
InitBoot ==
    /\ env \in [EnvVars -> EnvValues]
    /\ phase = "boot"
    /\ useGoogleSheets = FALSE
    /\ activeService = "none"
    /\ InitStores
    /\ sheetRows = SheetA
    /\ InitRequests

\* product tables of up to MaxRows data rows whose cells are readable,
\* unreadable or empty
RowChoices ==
    [id : {Num(5), Num(2), BadCell}, name : {"", "Frame"}, sku : {"", "FR-5"},
     price : {Num(10)}, stock : {Num(3), BadCell}]

RowTables == UNION {[1..n -> RowChoices] : n \in 0..MaxRows}

\* the Spreadsheet Store active over any of these tables
InitRows ==
    /\ env = EnvAll("real")
    /\ phase = "running"
    /\ useGoogleSheets = TRUE
    /\ activeService = "sheets"
    /\ products = SeedProducts
    /\ orders = <<>>
    /\ sheetRows \in RowTables
    /\ sheetOrders = <<>>
    /\ InitRequests

\* the facade constructed with every value set: to the placeholder the
\* facade tests for, to the value of the example environment file, or to a
\* real credential
FacadeEnvValues == {"your_value_here", "example", "real"}

InitFacade ==
    /\ env \in [EnvVars -> FacadeEnvValues]
    /\ phase = "running"
    /\ useGoogleSheets = shouldUseGoogleSheets(env)
    /\ activeService = (IF shouldUseGoogleSheets(env) THEN "sheets" ELSE "mock")
    /\ InitStores
    /\ sheetRows = SheetA
    /\ InitRequests

(***************************************************************************)
(* Module loading and the facade                                           *)
(***************************************************************************)
\* require('./googleSheetService') runs the GoogleSheetService constructor,
\* then the DataService constructor runs
Boot ==
    /\ phase = "boot"
    /\ IF initializeAuthThrows(env)
       THEN /\ phase' = "crashed"
            /\ UNCHANGED <<useGoogleSheets, activeService>>
       ELSE /\ phase' = "running"
            /\ useGoogleSheets' = shouldUseGoogleSheets(env)
            /\ activeService' = IF shouldUseGoogleSheets(env) THEN "sheets" ELSE "mock"
    /\ UNCHANGED <<env, mockVars, sheetVars, reqVars, lastCall>>

\* variant: the switch is made without the credentials check
switchToGoogleSheets_unchecked ==
    /\ phase = "running"
    /\ useGoogleSheets' = TRUE
    /\ activeService' = "sheets"
    /\ lastCall' = [op |-> "switchToGoogleSheets", result |-> "true"]
    /\ UNCHANGED <<env, phase, mockVars, sheetVars, reqVars>>

\* DataService.switchToGoogleSheets
switchToGoogleSheets ==
    /\ phase = "running"
    /\ IF shouldUseGoogleSheets(env)
       THEN /\ useGoogleSheets' = TRUE
            /\ activeService' = "sheets"
            /\ lastCall' = [op |-> "switchToGoogleSheets", result |-> "true"]
       ELSE /\ UNCHANGED <<useGoogleSheets, activeService>>
            /\ lastCall' = [op |-> "switchToGoogleSheets", result |-> "false"]
    /\ UNCHANGED <<env, phase, mockVars, sheetVars, reqVars>>

\* variant: the store is replaced and the flag is left as it was
switchToMockData_keepsFlag ==
    /\ phase = "running"
    /\ activeService' = "mock"
    /\ lastCall' = [op |-> "switchToMockData", result |-> ""]
    /\ UNCHANGED <<env, phase, useGoogleSheets, mockVars, sheetVars, reqVars>>

\* DataService.switchToMockData
switchToMockData ==
    /\ phase = "running"
    /\ useGoogleSheets' = FALSE
    /\ activeService' = "mock"
    /\ lastCall' = [op |-> "switchToMockData", result |-> ""]
    /\ UNCHANGED <<env, phase, mockVars, sheetVars, reqVars>>

(***************************************************************************)
(* Direct store calls through the facade                                   *)
(***************************************************************************)
\* DataService.updateProductStock on the Mock Store
updateProductStock(productId, newStock) ==
    /\ phase = "running" /\ activeService = "mock"
    /\ IF findIndex(products, productId) = 0
       THEN /\ lastCall' = [op |-> "updateProductStock", result |-> "not_found"]
            /\ UNCHANGED products
       ELSE /\ products' = Mock_updateProductStock(products, productId, newStock)
            /\ lastCall' = [op |-> "updateProductStock", result |-> "true"]
    /\ UNCHANGED <<facadeVars, orders, sheetVars, reqVars>>

\* DataService.resetData
resetData ==
    /\ phase = "running"
    /\ IF activeService = "mock"
       THEN /\ orders' = <<>>
            /\ products' = Mock_resetData(products)
            /\ lastCall' = [op |-> "resetData", result |-> "true"]
       ELSE /\ UNCHANGED mockVars
            /\ lastCall' = [op |-> "resetData", result |-> "false"]
    /\ UNCHANGED <<facadeVars, sheetVars, reqVars>>

\* DataService.getDataSourceInfo
getDataSourceInfo ==
    [type |-> IF useGoogleSheets THEN "Google Sheets" ELSE "Mock Data",
     service |-> IF useGoogleSheets THEN "Google Sheets API"
                 ELSE "In-Memory Mock Service",
     realTime |-> useGoogleSheets,
     persistent |-> useGoogleSheets]

\* MockDataService.getConnectionStatus
Mock_getConnectionStatus == [raised |-> FALSE, connected |-> TRUE, error |-> ""]

\* the two results of GoogleSheetService.getConnectionStatus: from the try
\* block, and from the catch block with error.message
Sheets_statusConnected == [raised |-> FALSE, connected |-> TRUE, error |-> ""]
Sheets_statusFailed == [raised |-> FALSE, connected |-> FALSE, error |-> "message"]

\* the probe's error thrown on to the caller
Sheets_statusRaised == [raised |-> TRUE, connected |-> FALSE, error |-> "message"]

\* variant: the catch block logs and rethrows
Sheets_getConnectionStatus_rethrows(ok) ==
    IF ok THEN Sheets_statusConnected ELSE Sheets_statusRaised

\* GoogleSheetService.getConnectionStatus; ok is the outcome of the
\* spreadsheets.get probe
Sheets_getConnectionStatus(ok) ==
    IF ok THEN Sheets_statusConnected ELSE Sheets_statusFailed

\* DataService.getConnectionStatus
getConnectionStatus(ok) ==
    /\ phase = "running"
    /\ LET status == IF activeService = "mock" THEN Mock_getConnectionStatus
                     ELSE Sheets_getConnectionStatus(ok)
       IN lastCall' =
              IF status.raised
              THEN [op |-> "getConnectionStatus", result |-> "throws",
                    error |-> status.error]
              ELSE [op |-> "getConnectionStatus", result |-> "returned",
                    connected |-> status.connected, error |-> status.error,
                    dataSource |-> getDataSourceInfo]
    /\ UNCHANGED <<facadeVars, mockVars, sheetVars, reqVars>>

\* the error GoogleSheetService.getProducts throws from its catch block
Sheets_getProductsFailure ==
    [op |-> "getProducts", result |-> "throws",
     error |-> "Failed to fetch products: message"]

\* DataService.getProducts; ok is the outcome of the values.get call of
\* GoogleSheetService.getProducts, whose catch block rethrows
getProducts(ok) ==
    /\ phase = "running"
    /\ lastCall' =
           IF activeService = "mock"
           THEN [op |-> "getProducts", result |-> "products", products |-> products]
           ELSE IF ok
                THEN [op |-> "getProducts", result |-> "products",
                      products |-> Sheets_getProducts(sheetRows)]
                ELSE Sheets_getProductsFailure
    /\ UNCHANGED <<facadeVars, mockVars, sheetVars, reqVars>>

\* variant: the product is always read from the Mock Store
getProductById_mockOnly(productId) ==
    Mock_getProductById(products, productId)

\* DataService.getProductById on the active store
getProductById(productId) ==
    IF activeService = "mock"
    THEN Mock_getProductById(products, productId)
    ELSE Sheets_getProductById(sheetRows, productId)

\* DataService.getProductById, called directly
getProductByIdCall(productId) ==
    /\ phase = "running"
    /\ lastCall' = [op |-> "getProductById",
                    result |-> IF getProductById(productId) = NoProduct
                               THEN "null" ELSE "product"]
    /\ UNCHANGED <<facadeVars, mockVars, sheetVars, reqVars>>

\* DataService.updateProductStock on the Spreadsheet Store, with no other
\* call in flight: the read of column A, then the write of the stock cell
Sheets_updateProductStock(productId, newStock) ==
    /\ phase = "running" /\ activeService = "sheets"
    /\ IF Sheets_findRow(sheetRows, productId) = 0
       THEN /\ lastCall' = [op |-> "updateProductStock", result |-> "throws"]
            /\ UNCHANGED sheetRows
       ELSE /\ sheetRows' = Sheets_writeStock(sheetRows,
                                Sheets_findRow(sheetRows, productId), newStock)
            /\ lastCall' = [op |-> "updateProductStock", result |-> "true"]
    /\ UNCHANGED <<facadeVars, mockVars, sheetOrders, reqVars>>

\* DataService.validateStock of a one-item list, called directly
validateStock(its) ==
    /\ phase = "running"
    /\ LET v == IF activeService = "mock"
                THEN Mock_validateItem(EmptyValidation,
                         Mock_getProductById(products, its[1].productId), its[1])
                ELSE Sheets_validateStock(sheetRows, its)
       IN lastCall' = [op |-> "validateStock",
                       result |-> IF v.valid THEN "valid" ELSE "invalid"]
    /\ UNCHANGED <<facadeVars, mockVars, sheetVars, reqVars>>

\* DataService.logOrder called directly, with no other call in flight
logOrder(orderData) ==
    /\ phase = "running"
    /\ Len(orders) < MaxLogged /\ Len(sheetOrders) < MaxLogged + 1
    /\ IF activeService = "mock"
       THEN /\ orders' = Append(orders, orderData)
            /\ UNCHANGED sheetOrders
       ELSE /\ sheetOrders' =
                   Append(IF sheetOrders = <<>> THEN <<OrdersHeader>> ELSE sheetOrders,
                          orderRow(orderData))
            /\ UNCHANGED orders
    /\ lastCall' = [op |-> "logOrder", result |-> "true"]
    /\ UNCHANGED <<facadeVars, products, sheetRows, reqVars>>

\* DataService.getOrders: the Spreadsheet Store has no getOrders
getOrders ==
    /\ phase = "running"
    /\ lastCall' = [op |-> "getOrders", result |-> "orders",
                    orders |-> IF activeService = "mock" THEN orders ELSE <<>>]
    /\ UNCHANGED <<facadeVars, mockVars, sheetVars, reqVars>>

(***************************************************************************)
(* Requests: POST /api/orders ("order") and POST /api/orders/validate-stock*)
(* ("validate").  A request slot is used once.                             *)
(***************************************************************************)
Item(r) == items[r][idx[r]]
LastItem(r) == idx[r] = Len(items[r])

Respond(r, status, error) ==
    /\ pc' = [pc EXCEPT ![r] = "done"]
    /\ response' = [response EXCEPT ![r] = [status |-> status, error |-> error]]

Goto(r, label) ==
    /\ pc' = [pc EXCEPT ![r] = label]
    /\ UNCHANGED response

\* the request arrives: step 1, the structural validation
Submit(r, k, its) ==
    /\ phase = "running" /\ pc[r] = "idle"
    /\ kind' = [kind EXCEPT ![r] = k]
    /\ items' = [items EXCEPT ![r] = its]
    /\ IF validShape(its)
       THEN /\ Goto(r, "validate")
            /\ idx' = [idx EXCEPT ![r] = 1]
       ELSE /\ Respond(r, 400, "validation")
            /\ UNCHANGED idx
    /\ UNCHANGED <<facadeVars, mockVars, sheetVars, validation, lineItems,
                   fetched, order, lastCall>>

\* what the handler does with a finished validateStock result v
AfterValidation(r, v) ==
    IF kind[r] = "validate"
    THEN Respond(r, 200, "") /\ UNCHANGED idx
    ELSE IF ~v.valid
         THEN Respond(r, 400, "stock") /\ UNCHANGED idx
         ELSE Goto(r, "price") /\ idx' = [idx EXCEPT ![r] = 1]

\* variant: validateStock reserves the units it found sufficient
Mock_validateStep_reserves(r) ==
    /\ phase = "running" /\ activeService = "mock" /\ pc[r] = "validate"
    /\ LET product == Mock_getProductById(products, Item(r).productId)
           v == Mock_validateItem(validation[r], product, Item(r))
       IN /\ validation' = [validation EXCEPT ![r] = v]
          /\ products' =
                 IF product # NoProduct /\ product.stock >= Item(r).quantity
                 THEN Mock_updateProductStock(products, Item(r).productId,
                          product.stock - Item(r).quantity)
                 ELSE products
          /\ IF LastItem(r)
             THEN AfterValidation(r, v)
             ELSE Goto(r, "validate") /\ idx' = [idx EXCEPT ![r] = idx[r] + 1]
    /\ UNCHANGED <<facadeVars, orders, sheetVars, kind, items, lineItems,
                   fetched, order, lastCall>>

\* MockDataService.validateStock: one getProductById per item
Mock_validateStep(r) ==
    /\ phase = "running" /\ activeService = "mock" /\ pc[r] = "validate"
    /\ LET v == Mock_validateItem(validation[r],
                    Mock_getProductById(products, Item(r).productId), Item(r))
       IN /\ validation' = [validation EXCEPT ![r] = v]
          /\ IF LastItem(r)
             THEN AfterValidation(r, v)
             ELSE Goto(r, "validate") /\ idx' = [idx EXCEPT ![r] = idx[r] + 1]
    /\ UNCHANGED <<facadeVars, mockVars, sheetVars, kind, items, lineItems,
                   fetched, order, lastCall>>

\* GoogleSheetService.validateStock: one read of the product table
Sheets_validateStep(r) ==
    /\ phase = "running" /\ activeService = "sheets" /\ pc[r] = "validate"
    /\ LET v == Sheets_validateStock(sheetRows, items[r])
       IN /\ validation' = [validation EXCEPT ![r] = v]
          /\ AfterValidation(r, v)
    /\ UNCHANGED <<facadeVars, mockVars, sheetVars, kind, items, lineItems,
                   fetched, order, lastCall>>

\* step 5: re-fetch the product of one item and price its line; after the
\* last item the order record is built (steps 5 and 6)
PriceStep(r) ==
    /\ phase = "running" /\ pc[r] = "price"
    /\ LET product == getProductById(Item(r).productId)
           lines == Append(lineItems[r], lineItem(product, Item(r)))
       IN IF product = NoProduct
          THEN /\ Respond(r, 500, "internal")
               /\ UNCHANGED <<lineItems, order, idx>>
          ELSE /\ lineItems' = [lineItems EXCEPT ![r] = lines]
               /\ IF LastItem(r)
                  THEN /\ order' = [order EXCEPT ![r] = buildOrder(r, lines)]
                       /\ Goto(r, "log")
                       /\ UNCHANGED idx
                  ELSE /\ Goto(r, "price")
                       /\ idx' = [idx EXCEPT ![r] = idx[r] + 1]
                       /\ UNCHANGED order
    /\ UNCHANGED <<facadeVars, mockVars, sheetVars, kind, items, validation,
                   fetched, lastCall>>

\* variant: the list is replaced by the new order instead of extended
Mock_logStep_replace(r) ==
    /\ phase = "running" /\ activeService = "mock" /\ pc[r] = "log"
    /\ orders' = <<order[r]>>
    /\ Goto(r, "fetch")
    /\ idx' = [idx EXCEPT ![r] = 1]
    /\ UNCHANGED <<facadeVars, products, sheetVars, kind, items, validation,
                   lineItems, fetched, order, lastCall>>

\* variant: the order is put in front of the list instead of pushed
Mock_logStep_unshift(r) ==
    /\ phase = "running" /\ activeService = "mock" /\ pc[r] = "log"
    /\ orders' = <<order[r]>> \o orders
    /\ Goto(r, "fetch")
    /\ idx' = [idx EXCEPT ![r] = 1]
    /\ UNCHANGED <<facadeVars, products, sheetVars, kind, items, validation,
                   lineItems, fetched, order, lastCall>>

\* step 7 on the Mock Store: MockDataService.logOrder
Mock_logStep(r) ==
    /\ phase = "running" /\ activeService = "mock" /\ pc[r] = "log"
    /\ orders' = Append(orders, order[r])
    /\ Goto(r, "fetch")
    /\ idx' = [idx EXCEPT ![r] = 1]
    /\ UNCHANGED <<facadeVars, products, sheetVars, kind, items, validation,
                   lineItems, fetched, order, lastCall>>

\* step 7 on the Spreadsheet Store: GoogleSheetService.logOrder reads the
\* header range; the read fails on a sheet that was never written
Sheets_logHeaderRead(r) ==
    /\ phase = "running" /\ activeService = "sheets" /\ pc[r] = "log"
    /\ IF sheetOrders = <<>> THEN Goto(r, "log_header") ELSE Goto(r, "log_append")
    /\ UNCHANGED <<facadeVars, mockVars, sheetVars, kind, items, idx,
                   validation, lineItems, fetched, order, lastCall>>

\* the same read with its outcome left to the remote service: values.get
\* answers (also on a sheet with no rows, with no values) or throws (sheet
\* missing, network, quota), whatever the rows are
Sheets_logHeaderProbe(r) ==
    /\ phase = "running" /\ activeService = "sheets" /\ pc[r] = "log"
    /\ \E ok \in BOOLEAN :
           IF ok THEN Goto(r, "log_append") ELSE Goto(r, "log_header")
    /\ UNCHANGED <<facadeVars, mockVars, sheetVars, kind, items, idx,
                   validation, lineItems, fetched, order, lastCall>>

\* values.update of A1:I1 with the header row
Sheets_logHeaderWrite(r) ==
    /\ phase = "running" /\ pc[r] = "log_header"
    /\ sheetOrders' = IF sheetOrders = <<>> THEN <<OrdersHeader>>
                      ELSE [sheetOrders EXCEPT ![1] = OrdersHeader]
    /\ Goto(r, "log_append")
    /\ UNCHANGED <<facadeVars, mockVars, sheetRows, kind, items, idx,
                   validation, lineItems, fetched, order, lastCall>>

\* values.append of the order row
Sheets_logAppend(r) ==
    /\ phase = "running" /\ pc[r] = "log_append"
    /\ sheetOrders' = Append(sheetOrders, orderRow(order[r]))
    /\ Goto(r, "fetch")
    /\ idx' = [idx EXCEPT ![r] = 1]
    /\ UNCHANGED <<facadeVars, mockVars, sheetRows, kind, items, validation,
                   lineItems, fetched, order, lastCall>>

\* step 8, first half: fetch the product of one item for its current stock
FetchStep(r) ==
    /\ phase = "running" /\ pc[r] = "fetch"
    /\ LET product == getProductById(Item(r).productId)
       IN IF product = NoProduct
          THEN Respond(r, 500, "internal") /\ UNCHANGED fetched
          ELSE /\ fetched' = [fetched EXCEPT ![r] = [stock |-> product.stock, row |-> 0]]
               /\ IF activeService = "mock" THEN Goto(r, "write") ELSE Goto(r, "find")
    /\ UNCHANGED <<facadeVars, mockVars, sheetVars, kind, items, idx,
                   validation, lineItems, order, lastCall>>

\* after the stock write of one item: the next item, or the 201 response
AfterWrite(r) ==
    IF LastItem(r)
    THEN Respond(r, 201, "") /\ UNCHANGED idx
    ELSE Goto(r, "fetch") /\ idx' = [idx EXCEPT ![r] = idx[r] + 1]

\* step 8, second half on the Mock Store: MockDataService.updateProductStock
Mock_writeStep(r) ==
    /\ phase = "running" /\ activeService = "mock" /\ pc[r] = "write"
    /\ IF findIndex(products, Item(r).productId) = 0
       THEN /\ Respond(r, 500, "internal")
            /\ UNCHANGED <<products, idx>>
       ELSE /\ products' = Mock_updateProductStock(products, Item(r).productId,
                               fetched[r].stock - Item(r).quantity)
            /\ AfterWrite(r)
    /\ UNCHANGED <<facadeVars, orders, sheetVars, kind, items, validation,
                   lineItems, fetched, order, lastCall>>

\* GoogleSheetService.updateProductStock, the read of column A
Sheets_findStep(r) ==
    /\ phase = "running" /\ pc[r] = "find"
    /\ IF Sheets_findRow(sheetRows, Item(r).productId) = 0
       THEN Respond(r, 500, "internal") /\ UNCHANGED fetched
       ELSE /\ fetched' = [fetched EXCEPT ![r].row =
                               Sheets_findRow(sheetRows, Item(r).productId)]
            /\ Goto(r, "write")
    /\ UNCHANGED <<facadeVars, mockVars, sheetVars, kind, items, idx,
                   validation, lineItems, order, lastCall>>

\* GoogleSheetService.updateProductStock, the write of the stock cell
Sheets_writeStep(r) ==
    /\ phase = "running" /\ activeService = "sheets" /\ pc[r] = "write"
    /\ sheetRows' = Sheets_writeStock(sheetRows, fetched[r].row,
                        fetched[r].stock - Item(r).quantity)
    /\ AfterWrite(r)
    /\ UNCHANGED <<facadeVars, mockVars, sheetOrders, kind, items, validation,
                   lineItems, fetched, order, lastCall>>

(***************************************************************************)
(* Specifications                                                          *)
(***************************************************************************)
RequestStep(r) ==
    \/ Mock_validateStep(r)
    \/ Sheets_validateStep(r)
    \/ PriceStep(r)
    \/ Mock_logStep(r)
    \/ Sheets_logHeaderRead(r)
    \/ Sheets_logHeaderWrite(r)
    \/ Sheets_logAppend(r)
    \/ FetchStep(r)
    \/ Mock_writeStep(r)
    \/ Sheets_findStep(r)
    \/ Sheets_writeStep(r)

DirectCall ==
    \/ \E id \in ItemIds, ns \in NewStocks : updateProductStock(id, ns)
    \/ resetData

\* the running backend: one request and the direct store calls, interleaved
Next ==
    \/ \E k \in {"order", "validate"}, its \in ItemLists : Submit("r1", k, its)
    \/ RequestStep("r1")
    \/ DirectCall

Spec == Init /\ [][Next]_vars

\* two concurrent order requests
\* (the slots are interchangeable: r2 is taken after r1, by a one-item order)
NextOrders ==
    \/ \E its \in ItemLists : Submit("r1", "order", its)
    \/ \E its \in [1..1 -> ItemChoices] : pc["r1"] # "idle" /\ Submit("r2", "order", its)
    \/ \E r \in Requests : RequestStep(r)

SpecOrders == Init /\ [][NextOrders]_vars

\* module loading and the switch operations, for every configuration
NextBoot ==
    \/ Boot
    \/ switchToGoogleSheets
    \/ switchToMockData
    \/ resetData

SpecBoot == InitBoot /\ [][NextBoot]_vars

\* two concurrent one-item order requests with the development calls
\* (reset, direct stock update) interleaved
NextLog ==
    \/ \E its \in [1..1 -> ItemChoices] : Submit("r1", "order", its)
    \/ \E its \in [1..1 -> ItemChoices] : pc["r1"] # "idle" /\ Submit("r2", "order", its)
    \/ \E r \in Requests : RequestStep(r)
    \/ \E id \in ItemIds : updateProductStock(id, 0)
    \/ resetData

SpecLog == Init /\ [][NextLog]_vars

\* the order record passed to a direct logOrder call
DirectOrder == buildOrder("direct", <<>>)

\* the facade called directly by one caller, one call at a time
FacadeCall ==
    \/ \E ok \in BOOLEAN : getProducts(ok)
    \/ \E id \in ItemIds : getProductByIdCall(id)
    \/ \E id \in ItemIds : updateProductStock(id, 0)
    \/ \E id \in ItemIds : Sheets_updateProductStock(id, 0)
    \/ \E its \in [1..1 -> ItemChoices] : validateStock(its)
    \/ logOrder(DirectOrder)
    \/ \E ok \in BOOLEAN : getConnectionStatus(ok)
    \/ getOrders
    \/ resetData

NextFacade ==
    \/ switchToGoogleSheets
    \/ switchToMockData
    \/ FacadeCall

SpecFacade == InitFacade /\ [][NextFacade]_vars

\* the steps of a request with the header read of logOrder left open
RequestStepOpen(r) ==
    \/ Mock_validateStep(r)
    \/ Sheets_validateStep(r)
    \/ PriceStep(r)
    \/ Mock_logStep(r)
    \/ Sheets_logHeaderProbe(r)
    \/ Sheets_logHeaderWrite(r)
    \/ Sheets_logAppend(r)
    \/ FetchStep(r)
    \/ Mock_writeStep(r)
    \/ Sheets_findStep(r)
    \/ Sheets_writeStep(r)

\* two concurrent one-item order requests, the Orders sheet starting empty
NextSheetLog ==
    \/ \E its \in [1..1 -> ItemChoices] : Submit("r1", "order", its)
    \/ \E its \in [1..1 -> ItemChoices] : pc["r1"] # "idle" /\ Submit("r2", "order", its)
    \/ \E r \in Requests : RequestStepOpen(r)

SpecSheetLog == Init /\ [][NextSheetLog]_vars

\* two concurrent one-item order requests whose items carry a price field
\* supplied by the client
NextPrice ==
    \/ \E its \in [1..1 -> PricedItems] : Submit("r1", "order", its)
    \/ \E its \in [1..1 -> PricedItems] : pc["r1"] # "idle" /\ Submit("r2", "order", its)
    \/ \E r \in Requests : RequestStep(r)

SpecPrice == Init /\ [][NextPrice]_vars

\* the catalog read, over every product table
NextRows == \E ok \in BOOLEAN : getProducts(ok)

SpecRows == InitRows /\ [][NextRows]_vars

(***************************************************************************)
(* The global error handler of the server                                  *)
(***************************************************************************)
\* errors reaching the handler: status 0 stands for no status property
ErrorCodes == {"ENOTFOUND", "none"}
ErrorMessages == {"boom", "sheets unreachable", "Google Sheets API error"}
ErrorNames == {"ValidationError", "Error"}
Errors ==
    [code : ErrorCodes, message : ErrorMessages, name : ErrorNames,
     isJoi : BOOLEAN, status : {0, 404}]

\* process.env.NODE_ENV
NodeEnvs == {"development", "production", "test", "unset"}

\* error.message?.includes('sheets'), a case-sensitive search
includesSheets(message) == message = "sheets unreachable"

UpstreamResponse ==
    [status |-> 503, error |-> "Service temporarily unavailable",
     message |-> "Unable to connect to Google Sheets. Please try again later.",
     stack |-> FALSE]

\* the response the handler sends for error under NODE_ENV nodeEnv
errorResponse(error, nodeEnv) ==
    IF error.code = "ENOTFOUND" \/ includesSheets(error.message)
    THEN UpstreamResponse
    ELSE IF error.name = "ValidationError" \/ error.isJoi
         THEN [status |-> 400, error |-> "Validation failed",
               message |-> error.message, stack |-> FALSE]
         ELSE [status |-> IF error.status # 0 THEN error.status ELSE 500,
               error |-> IF nodeEnv = "production" THEN "Internal server error"
                         ELSE error.message,
               message |-> "",
               stack |-> (nodeEnv = "development")]

\* the backend on the Mock Store with no request in flight; lastCall is left
\* to the caller
IdleBackend ==
    /\ env = EnvAll("your_value_here")
    /\ phase = "running"
    /\ useGoogleSheets = FALSE
    /\ activeService = "mock"
    /\ products = SeedProducts
    /\ orders = <<>>
    /\ sheetRows = SheetA
    /\ sheetOrders = <<>>
    /\ pc = [r \in Requests |-> "idle"]
    /\ kind = [r \in Requests |-> "order"]
    /\ items = [r \in Requests |-> <<>>]
    /\ idx = [r \in Requests |-> 0]
    /\ validation = [r \in Requests |-> EmptyValidation]
    /\ lineItems = [r \in Requests |-> <<>>]
    /\ fetched = [r \in Requests |-> NoFetch]
    /\ order = [r \in Requests |-> NoOrder]
    /\ response = [r \in Requests |-> NoResponse]

\* an error passed to next(error), for every error and mode
InitErrors ==
    /\ IdleBackend
    /\ \E e \in Errors, m \in NodeEnvs :
           lastCall = [op |-> "next", result |-> "", error |-> e, nodeEnv |-> m]

globalErrorHandler ==
    /\ lastCall.op = "next"
    /\ lastCall' = [op |-> "globalErrorHandler", result |-> "sent",
                    error |-> lastCall.error, nodeEnv |-> lastCall.nodeEnv,
                    response |-> errorResponse(lastCall.error, lastCall.nodeEnv)]
    /\ UNCHANGED <<facadeVars, mockVars, sheetVars, reqVars>>

NextErrors == globalErrorHandler

SpecErrors == InitErrors /\ [][NextErrors]_vars

(***************************************************************************)
(* The delivery estimate of a created order (POST /api/orders, step 9)     *)
(***************************************************************************)
PaymentMethods == {"credit_card", "debit_card", "upi", "net_banking", "cod"}

FirstYear == 2027
Years == {FirstYear, FirstYear + 1}

IsLeap(y) == (y % 4 = 0 /\ y % 100 # 0) \/ y % 400 = 0

DaysIn(y, m) ==
    IF m = 2 THEN (IF IsLeap(y) THEN 29 ELSE 28)
    ELSE IF m \in {4, 6, 9, 11} THEN 30 ELSE 31

Dates == {dt \in [y : Years, m : 1..12, d : 1..31] : dt.d <= DaysIn(dt.y, dt.m)}

nextDay(dt) ==
    IF dt.d < DaysIn(dt.y, dt.m) THEN [dt EXCEPT !.d = dt.d + 1]
    ELSE IF dt.m < 12 THEN [y |-> dt.y, m |-> dt.m + 1, d |-> 1]
    ELSE [y |-> dt.y + 1, m |-> 1, d |-> 1]

RECURSIVE addDays(_, _)
addDays(dt, n) == IF n = 0 THEN dt ELSE addDays(nextDay(dt), n - 1)

\* variant: upi is counted with the card payments
deliveryDays_upiAsCard(paymentMethod) ==
    IF paymentMethod = "cod" THEN 7
    ELSE IF paymentMethod = "net_banking" THEN 3
    ELSE 5

deliveryDays(paymentMethod) ==
    IF paymentMethod = "cod" THEN 7
    ELSE IF paymentMethod \in {"upi", "net_banking"} THEN 3
    ELSE 5

estimatedDelivery(createdAt, paymentMethod) ==
    addDays(createdAt, deliveryDays(paymentMethod))

\* an order created on any date with any payment method
InitDelivery ==
    /\ IdleBackend
    /\ \E dt \in Dates, pm \in PaymentMethods :
           lastCall = [op |-> "created", result |-> "",
                       createdAt |-> dt, paymentMethod |-> pm]

estimateDelivery ==
    /\ lastCall.op = "created"
    /\ lastCall' = [op |-> "estimateDelivery", result |-> "date",
                    createdAt |-> lastCall.createdAt,
                    paymentMethod |-> lastCall.paymentMethod,
                    estimatedDelivery |->
                        estimatedDelivery(lastCall.createdAt, lastCall.paymentMethod)]
    /\ UNCHANGED <<facadeVars, mockVars, sheetVars, reqVars>>

NextDelivery == estimateDelivery

SpecDelivery == InitDelivery /\ [][NextDelivery]_vars

(***************************************************************************)
(* The catalog query (GET /api/products): filter, sort, paginate           *)
(***************************************************************************)
CatalogPrices == {10, 20}
DefaultLimit == 50

\* catalogs of up to MaxCatalog products, ids in list order
Catalogs ==
    UNION {{[i \in 1..n |-> [id |-> i, price |-> pr[i], inStock |-> st[i]]] :
                pr \in [1..n -> CatalogPrices], st \in [1..n -> BOOLEAN]} :
           n \in 0..MaxCatalog}

\* the inStock filter; an omitted filter keeps every product
RECURSIVE filterProducts(_, _)
filterProducts(ps, inStockOnly) ==
    IF ps = <<>> THEN <<>>
    ELSE IF inStockOnly /\ ~Head(ps).inStock
         THEN filterProducts(Tail(ps), inStockOnly)
         ELSE <<Head(ps)>> \o filterProducts(Tail(ps), inStockOnly)

\* the three-way comparator on price, for sortOrder asc or desc
comparePrice(a, b, sortOrder) ==
    IF a.price = b.price THEN 0
    ELSE IF (a.price < b.price) = (sortOrder = "asc") THEN 0 - 1 ELSE 1

\* x put behind every element that does not sort after it
RECURSIVE insertSorted(_, _, _)
insertSorted(x, sorted, sortOrder) ==
    IF sorted = <<>> THEN <<x>>
    ELSE IF comparePrice(Head(sorted), x, sortOrder) <= 0
         THEN <<Head(sorted)>> \o insertSorted(x, Tail(sorted), sortOrder)
         ELSE <<x>> \o sorted

RECURSIVE sortProducts(_, _)
sortProducts(ps, sortOrder) ==
    IF ps = <<>> THEN <<>>
    ELSE insertSorted(ps[Len(ps)],
                      sortProducts(SubSeq(ps, 1, Len(ps) - 1), sortOrder), sortOrder)

Min(a, b) == IF a < b THEN a ELSE b

\* variant: hasMore also when the page ends exactly at the last result
paginate_hasMoreAtEnd(ps, offset, limit) ==
    [items |-> SubSeq(ps, offset + 1, Min(offset + limit, Len(ps))),
     total |-> Len(ps),
     hasMore |-> offset + limit <= Len(ps)]

\* the page of limit results from offset, and whether more exist behind it
paginate(ps, offset, limit) ==
    [items |-> SubSeq(ps, offset + 1, Min(offset + limit, Len(ps))),
     total |-> Len(ps),
     hasMore |-> offset + limit < Len(ps)]

queryProducts(ps, inStockOnly, sortOrder, offset, limit) ==
    paginate(sortProducts(filterProducts(ps, inStockOnly), sortOrder), offset, limit)

NoPage == [items |-> <<>>, total |-> 0 - 1, hasMore |-> FALSE]

\* a catalog, a filter and a sort order, with no query answered yet
InitCatalog ==
    /\ IdleBackend
    /\ \E ps \in Catalogs, f \in BOOLEAN, so \in {"asc", "desc"} :
           lastCall = [op |-> "catalog", result |-> "", products |-> ps,
                       inStockOnly |-> f, sortOrder |-> so,
                       first |-> NoPage, second |-> NoPage, all |-> NoPage]

\* GET /api/products?offset=0&limit=2
queryFirstPage ==
    /\ lastCall.op = "catalog" /\ lastCall.first = NoPage
    /\ lastCall' = [lastCall EXCEPT !.first =
           queryProducts(lastCall.products, lastCall.inStockOnly,
                         lastCall.sortOrder, 0, 2)]
    /\ UNCHANGED <<facadeVars, mockVars, sheetVars, reqVars>>

\* GET /api/products?offset=2&limit=2
querySecondPage ==
    /\ lastCall.op = "catalog" /\ lastCall.second = NoPage
    /\ lastCall' = [lastCall EXCEPT !.second =
           queryProducts(lastCall.products, lastCall.inStockOnly,
                         lastCall.sortOrder, 2, 2)]
    /\ UNCHANGED <<facadeVars, mockVars, sheetVars, reqVars>>

\* GET /api/products with no offset and no limit
queryUnpaginated ==
    /\ lastCall.op = "catalog" /\ lastCall.all = NoPage
    /\ lastCall' = [lastCall EXCEPT !.all =
           queryProducts(lastCall.products, lastCall.inStockOnly,
                         lastCall.sortOrder, 0, DefaultLimit)]
    /\ UNCHANGED <<facadeVars, mockVars, sheetVars, reqVars>>

NextCatalog == queryFirstPage \/ querySecondPage \/ queryUnpaginated

SpecCatalog == InitCatalog /\ [][NextCatalog]_vars

(***************************************************************************)
(* Properties                                                              *)
(***************************************************************************)
Created(r) == response[r].status = 201
Done(r) == pc[r] = "done"

\* the products the active store serves
ActiveProducts ==
    IF activeService = "mock" THEN products ELSE Sheets_getProducts(sheetRows)

Exists(productId) ==
    \E i \in 1..Len(ActiveProducts) : ActiveProducts[i].id = productId

ProductOf(productId) ==
    ActiveProducts[CHOOSE i \in 1..Len(ActiveProducts) :
                       ActiveProducts[i].id = productId]

\* units of productId in a list of items
RECURSIVE Units(_, _)
Units(its, productId) ==
    IF its = <<>> THEN 0
    ELSE (IF Head(its).productId = productId THEN Head(its).quantity ELSE 0)
         + Units(Tail(its), productId)

\* C1: when a configuration value is missing the process starts and the
\* facade is constructed on the Mock Store, which serves the seeded products.
C1_MissingConfigStartsOnMock ==
    (phase # "boot" /\ \E v \in EnvVars : env[v] = "missing")
        => (phase = "running" /\ activeService = "mock"
            /\ ~useGoogleSheets /\ products = SeedProducts)

\* C2: two concurrent one-item orders for product 1 that both saw, at their
\* validation, a stock equal to the quantity each requests are neither
\* rejected for stock; when both have finished both are created, both orders
\* are in the log, and the stock is 0 (one write lost) or -q (two decrements).
BothSaw(q) ==
    \A r \in Requests :
        /\ items[r] = <<[productId |-> 1, quantity |-> q]>>
        /\ Len(validation[r].stockInfo) = 1
        /\ validation[r].stockInfo[1].availableStock = q

SoldUnits(productId) ==
    (IF Created("r1") THEN Units(items["r1"], productId) ELSE 0)
    + (IF Created("r2") THEN Units(items["r2"], productId) ELSE 0)

LoggedFor(r) ==
    \/ \E i \in 1..Len(orders) : orders[i].orderId = r
    \/ \E i \in 1..Len(sheetOrders) : sheetOrders[i].orderId = r

C4_Rejected(r) ==
    (kind[r] = "order" /\ validation[r].errors # <<>>) =>
        /\ pc[r] \in {"validate", "done"}
        /\ Done(r) => response[r] = [status |-> 400, error |-> "stock"]
        /\ order[r] = NoOrder /\ lineItems[r] = <<>> /\ fetched[r] = NoFetch
        /\ ~LoggedFor(r)

C4_RejectedStep(r) ==
    (validation'[r].errors # <<>> /\ <<pc[r], idx[r]>> # <<pc'[r], idx'[r]>>)
        => UNCHANGED <<products, orders, sheetRows, sheetOrders>>

RECURSIVE SumOfLines(_)
SumOfLines(lines) ==
    IF lines = <<>> THEN 0
    ELSE Head(lines).unitPrice * Head(lines).quantity + SumOfLines(Tail(lines))

AmountsAgree(o) ==
    /\ o.subtotal = SumOfLines(o.items)
    /\ o.shippingCost = (IF o.subtotal >= 999 THEN 0 ELSE 99)
    /\ o.totalAmount = o.subtotal + o.shippingCost

Examined(r) ==
    IF pc[r] = "idle" \/ response[r].error = "validation" THEN 0
    ELSE IF pc[r] = "validate" THEN idx[r] - 1
    ELSE Len(items[r])

KnownItem(it) == Exists(it.productId)
UnknownItem(it) == ~Exists(it.productId)
IsShort(info) == info.availableStock < info.requestedQuantity
IsNotFound(e) == e.type = "not_found"
IsInsufficient(e) == e.type = "insufficient"

C6_Result(r) ==
    LET v == validation[r]
        seen == SubSeq(items[r], 1, Examined(r))
        known == SelectSeq(seen, KnownItem)
        unknown == SelectSeq(seen, UnknownItem)
        short == SelectSeq(v.stockInfo, IsShort)
        notFound == SelectSeq(v.errors, IsNotFound)
        insufficient == SelectSeq(v.errors, IsInsufficient)
    IN /\ Len(v.stockInfo) = Len(known)
       /\ \A k \in 1..Len(known) :
              /\ v.stockInfo[k].productId = known[k].productId
              /\ v.stockInfo[k].requestedQuantity = known[k].quantity
              /\ v.stockInfo[k].productName = ProductOf(known[k].productId).name
              /\ v.stockInfo[k].sufficient = ~IsShort(v.stockInfo[k])
       /\ Len(v.errors) = Len(unknown) + Len(short)
       /\ Len(notFound) = Len(unknown)
       /\ \A k \in 1..Len(unknown) : notFound[k].productId = unknown[k].productId
       /\ Len(insufficient) = Len(short)
       /\ \A k \in 1..Len(short) :
              /\ insufficient[k].name = short[k].productName
              /\ insufficient[k].requested = short[k].requestedQuantity
              /\ insufficient[k].available = short[k].availableStock
       /\ v.valid = (v.errors = <<>>)
       /\ (Done(r) /\ response[r].error # "validation") => Examined(r) = Len(items[r])

C6_Snapshot(r) ==
    \A k \in (Len(validation[r].stockInfo) + 1)..Len(validation'[r].stockInfo) :
        validation'[r].stockInfo[k].availableStock
            = ProductOf(validation'[r].stockInfo[k].productId).stock

C6_ValidateStockCollectsAll ==
    /\ [](\A r \in Requests : C6_Result(r))
    /\ [][\A r \in Requests : C6_Snapshot(r)]_vars

\* a finished validate-stock call with an unknown and an insufficient item
C6_TwoErrors ==
    \E r \in Requests :
        /\ Done(r) /\ kind[r] = "validate" /\ response[r].status = 200
        /\ Len(items[r]) = 2
        /\ Len(validation[r].errors) = 2
        /\ Len(validation[r].stockInfo) = 1
        /\ validation[r].errors[1].type # validation[r].errors[2].type

\* C7: validateStock of the single item {productId: 1, quantity: stock + 1},
\* stock being the current stock of product 1, returns valid:false with
\* exactly one error, which names product 1 and the two quantities.
C7_Step(r) ==
    (/\ pc[r] = "validate" /\ pc'[r] = "done"
     /\ Exists(1)
     /\ items[r] = <<[productId |-> 1, quantity |-> ProductOf(1).stock + 1]>>)
        => /\ validation'[r].valid = FALSE
           /\ Len(validation'[r].errors) = 1
           /\ validation'[r].errors[1] =
                  [type |-> "insufficient", productId |-> 0,
                   name |-> ProductOf(1).name,
                   requested |-> ProductOf(1).stock + 1,
                   available |-> ProductOf(1).stock]

C7_OneMoreThanStock == [][\A r \in Requests : C7_Step(r)]_vars

\* a finished call that asked for one more than the stock it found
C7_AskedOneMore ==
    \E r \in Requests :
        /\ Done(r) /\ Len(items[r]) = 1 /\ items[r][1].productId = 1
        /\ Len(validation[r].stockInfo) = 1
        /\ validation[r].stockInfo[1].availableStock = items[r][1].quantity - 1
        /\ ~validation[r].valid

\* C8: resetData on the Mock Store leaves every seeded product with its seed
\* stock (1:45, 2:32, 3:28, 4:15, 5:67, 6:23), inStock recomputed from it,
\* and no logged order, whatever the store held before.
C8_ResetStep ==
    (resetData /\ activeService = "mock") =>
        /\ orders' = <<>>
        /\ Len(products') = Len(SeedProducts)
        /\ \A i \in 1..Len(SeedProducts) :
               /\ products'[i].id = SeedProducts[i].id
               /\ products'[i].stock = SeedProducts[i].stock
               /\ products'[i].inStock = (SeedProducts[i].stock > 0)
        /\ products'[1].stock = 45 /\ products'[2].stock = 32
        /\ products'[3].stock = 28 /\ products'[4].stock = 15
        /\ products'[5].stock = 67 /\ products'[6].stock = 23

C8_ResetRestoresSeed == [][C8_ResetStep]_vars

\* a reset after an order was created (logged and its stock taken)
C8_ResetAfterOrder ==
    /\ lastCall = [op |-> "resetData", result |-> "true"]
    /\ Created("r1") /\ LoggedFor("r1") = FALSE
    /\ products = SeedProducts /\ orders = <<>>

\* C9: Mock Store updateProductStock(id, newStock): an id that matches no
\* product fails with not-found and changes no product and no order;
\* otherwise the matching product's stock becomes newStock and its inStock
\* newStock > 0, every other product and the orders staying as they were.
C9_UpdateStep(id, ns) ==
    updateProductStock(id, ns) =>
        IF \A i \in 1..Len(products) : products[i].id # id
        THEN /\ lastCall'.result = "not_found"
             /\ products' = products /\ orders' = orders
        ELSE /\ lastCall'.result = "true"
             /\ orders' = orders
             /\ Len(products') = Len(products)
             /\ \A i \in 1..Len(products) :
                    IF products[i].id = id
                    THEN /\ products'[i].stock = ns
                         /\ products'[i].inStock = (ns > 0)
                         /\ products'[i].id = id
                         /\ products'[i].price = products[i].price
                    ELSE products'[i] = products[i]

C9_UpdateProductStock ==
    [][\A id \in ItemIds, ns \in NewStocks : C9_UpdateStep(id, ns)]_vars

\* an update that emptied product 1
C9_StockSetToZero ==
    /\ lastCall = [op |-> "updateProductStock", result |-> "true"]
    /\ products[1].stock = 0 /\ ~products[1].inStock
    /\ \A i \in 2..Len(products) : products[i] = SeedProducts[i]

\* C10: in every reachable state of the Mock Store every product has
\* inStock = (stock > 0).
C10_InStockFollowsStock ==
    \A i \in 1..Len(products) : products[i].inStock = (products[i].stock > 0)

\* product 1 driven below zero by an order, and reported out of stock
C10_OutOfStock ==
    /\ activeService = "mock"
    /\ products[1].stock < 0 /\ ~products[1].inStock

IsPrefix(s, t) == Len(s) <= Len(t) /\ \A i \in 1..Len(s) : t[i] = s[i]

C12_Step ==
    /\ IsPrefix(sheetOrders, sheetOrders')
    /\ IF resetData /\ activeService = "mock"
       THEN orders' = <<>>
       ELSE IsPrefix(orders, orders')

BothFetched(s) ==
    /\ activeService = "sheets"
    /\ \A r \in Requests :
           /\ Len(items[r]) = 1 /\ items[r][1].productId = 1
           /\ Done(r) /\ Created(r)
           /\ fetched[r].stock = s /\ fetched[r].row = 1

C14_Step ==
    (getProducts(FALSE) /\ activeService = "sheets") =>
        (lastCall'.result = "products" /\ lastCall'.products = products)

C14_FailureServedFromMock == [][C14_Step]_vars

\* C15: the freshly constructed facade selects the Spreadsheet Store if and
\* only if all three configuration values are present, non-blank and not
\* placeholders; with the values of the example environment file it selects
\* the Mock Store.
IsCredential(v) == v = "real"

C15_PlaceholdersSelectMock ==
    (phase = "running" /\ lastCall = NoCall) =>
        /\ (activeService = "sheets") <=> (\A v \in EnvVars : IsCredential(env[v]))
        /\ useGoogleSheets <=> (\A v \in EnvVars : IsCredential(env[v]))
        /\ (\A v \in EnvVars : env[v] = "example") => activeService = "mock"

\* C16: the active store changes only through the switch operations:
\* switchToMockData makes the Mock Store active; switchToGoogleSheets makes
\* the Spreadsheet Store active and returns true when every configuration
\* value is set, non-blank and not 'your_value_here', and otherwise returns
\* false and leaves the active store as it was; every other facade operation
\* leaves the selection unchanged.
CredentialsPass ==
    \A v \in EnvVars : env[v] \notin {"missing", "empty", "blank", "your_value_here"}

C16_Step ==
    /\ switchToMockData => (activeService' = "mock" /\ ~useGoogleSheets')
    /\ switchToGoogleSheets =>
           IF CredentialsPass
           THEN activeService' = "sheets" /\ useGoogleSheets'
                /\ lastCall'.result = "true"
           ELSE UNCHANGED <<activeService, useGoogleSheets>>
                /\ lastCall'.result = "false"
    /\ FacadeCall => UNCHANGED <<activeService, useGoogleSheets>>
    /\ (activeService' # activeService \/ useGoogleSheets' # useGoogleSheets)
           => (switchToMockData \/ switchToGoogleSheets)

C16_OnlySwitchChangesStore == [][C16_Step]_vars

\* a refused switch: the Mock Store is still active after switchToGoogleSheets
\* returned false
C16_SwitchRefused ==
    /\ lastCall = [op |-> "switchToGoogleSheets", result |-> "false"]
    /\ activeService = "mock" /\ ~useGoogleSheets
    /\ ~CredentialsPass

\* C17: the amounts of an order depend only on the prices held by the active
\* store and on the requested quantities: every line has the store's price
\* as unitPrice and unitPrice * quantity as totalPrice, and two requests that
\* differ at most in the client-supplied price field get the same line
\* items, subtotal, shippingCost and totalAmount.
Built(r) == order[r] # NoOrder

SameButPrice(r, q) ==
    /\ Len(items[r]) = Len(items[q])
    /\ \A k \in 1..Len(items[r]) :
           /\ items[r][k].productId = items[q][k].productId
           /\ items[r][k].quantity = items[q][k].quantity

Snapshot(o) ==
    [k \in 1..Len(o.items) |->
        [productName |-> o.items[k].productName, sku |-> o.items[k].sku,
         unitPrice |-> o.items[k].unitPrice, totalPrice |-> o.items[k].totalPrice]]

C18_Step ==
    /\ \A i \in 1..Len(orders) :
           i <= Len(orders') => Snapshot(orders'[i]) = Snapshot(orders[i])
    /\ \A i \in 1..Len(sheetOrders) :
           i <= Len(sheetOrders') => Snapshot(sheetOrders'[i]) = Snapshot(sheetOrders[i])

C19_Step ==
    \A ok \in BOOLEAN :
        (getConnectionStatus(ok) /\ activeService = "sheets") =>
            /\ lastCall'.result = "returned"
            /\ lastCall'.connected = ok
            /\ (~ok => lastCall'.error = "message")
            /\ lastCall'.dataSource = getDataSourceInfo
            /\ lastCall'.dataSource.type = "Google Sheets"

C19_StatusNeverRaises == [][C19_Step]_vars

\* a failed probe reported as a result
C19_ProbeFailedReported ==
    /\ lastCall.op = "getConnectionStatus" /\ lastCall.result = "returned"
    /\ ~lastCall.connected /\ lastCall.error = "message"
    /\ lastCall.dataSource.type = "Google Sheets"

\* C20: Spreadsheet Store getProducts returns one product per data row, in
\* row order, whatever the cells hold: an unreadable id becomes the row
\* number, an empty name becomes "Unnamed Product", an unreadable stock
\* becomes 0 with inStock false, readable cells are kept, and an empty table
\* gives an empty list.
C20_Row(p, row, i) ==
    /\ p.id = (IF row.id.num THEN row.id.v ELSE i)
    /\ p.name = (IF row.name = "" THEN "Unnamed Product" ELSE row.name)
    /\ IF row.stock.num
       THEN p.stock = row.stock.v /\ p.inStock = (row.stock.v > 0)
       ELSE p.stock = 0 /\ ~p.inStock

C20_OneProductPerRow ==
    (lastCall.op = "getProducts" /\ lastCall.result = "products") =>
        /\ Len(lastCall.products) = Len(sheetRows)
        /\ \A i \in 1..Len(sheetRows) :
               C20_Row(lastCall.products[i], sheetRows[i], i)
        /\ (sheetRows = <<>> => lastCall.products = <<>>)

\* a table whose first row is well formed and whose second row has no
\* readable id, name or stock, fetched as two products
C20_BadRowDefaulted ==
    /\ lastCall.op = "getProducts" /\ lastCall.result = "products"
    /\ Len(sheetRows) = 2
    /\ sheetRows[1].id.num /\ sheetRows[1].stock.num /\ sheetRows[1].name # ""
    /\ ~sheetRows[2].id.num /\ ~sheetRows[2].stock.num /\ sheetRows[2].name = ""
    /\ lastCall.products[1].id = 5 /\ lastCall.products[1].inStock
    /\ lastCall.products[2].id = 2
    /\ lastCall.products[2].name = "Unnamed Product"
    /\ lastCall.products[2].stock = 0 /\ ~lastCall.products[2].inStock

\* C21: the ids of the products returned by getProducts are pairwise
\* distinct: in the Mock Store always, and in the Spreadsheet Store whenever
\* the rows with a readable id carry distinct ids, whatever the other rows
\* hold.
DistinctIds(ps) ==
    \A i, j \in 1..Len(ps) : i # j => ps[i].id # ps[j].id

WellFormedIdsDistinct(rows) ==
    \A i, j \in 1..Len(rows) :
        (i # j /\ rows[i].id.num /\ rows[j].id.num) => rows[i].id.v # rows[j].id.v

C21_UniqueIds ==
    /\ DistinctIds(products)
    /\ (lastCall.op = "getProducts" /\ lastCall.result = "products"
        /\ WellFormedIdsDistinct(sheetRows))
           => DistinctIds(lastCall.products)

\* C22: the global error handler answers an upstream failure (code ENOTFOUND
\* or a message containing 'sheets') with 503, a validation failure with 400,
\* and anything else with error.status or 500; in that last class the error
\* message is replaced by a fixed text in every mode other than development,
\* and the stack trace is sent only in development.
IsUpstream(e) == e.code = "ENOTFOUND" \/ e.message = "sheets unreachable"
IsValidation(e) == e.name = "ValidationError" \/ e.isJoi

C22_ErrorClasses ==
    lastCall.op = "globalErrorHandler" =>
        LET e == lastCall.error
            res == lastCall.response
        IN IF IsUpstream(e) THEN res.status = 503
           ELSE IF IsValidation(e) THEN res.status = 400
           ELSE /\ res.status = (IF e.status = 0 THEN 500 ELSE e.status)
                /\ (lastCall.nodeEnv # "development" => res.error # e.message)
                /\ res.stack = (lastCall.nodeEnv = "development")

\* C23: the delivery estimate is a calendar date that lies 7 days after the
\* creation date for cod, 3 days after it for upi and net_banking, and 5
\* days after it for credit_card and debit_card.
RECURSIVE DaysBefore(_, _)
DaysBefore(y, m) == IF m = 1 THEN 0 ELSE DaysBefore(y, m - 1) + DaysIn(y, m - 1)

RECURSIVE DaysBeforeYear(_)
DaysBeforeYear(y) ==
    IF y = FirstYear THEN 0
    ELSE DaysBeforeYear(y - 1) + (IF IsLeap(y - 1) THEN 366 ELSE 365)

\* days from 1 January of FirstYear
Ordinal(dt) == DaysBeforeYear(dt.y) + DaysBefore(dt.y, dt.m) + dt.d

IsDate(dt) == dt.m \in 1..12 /\ dt.d \in 1..DaysIn(dt.y, dt.m)

C24_Answered ==
    /\ lastCall.op = "catalog"
    /\ lastCall.first # NoPage /\ lastCall.second # NoPage /\ lastCall.all # NoPage

IsOrderRow(row) == ~row.header

C25_Step ==
    /\ \A r \in Requests :
           /\ Sheets_logHeaderWrite(r) =>
                  /\ pc[r] = "log_header" /\ pc'[r] = "log_append"
                  /\ ~LoggedFor(r)
           /\ Sheets_logAppend(r) =>
                  /\ Len(sheetOrders') = Len(sheetOrders) + 1
                  /\ sheetOrders'[Len(sheetOrders')].orderId = r
                  /\ sheetOrders'[Len(sheetOrders')].status = "pending"
    /\ \A i \in 1..Len(sheetOrders) :
           IsOrderRow(sheetOrders[i]) =>
               (i <= Len(sheetOrders') /\ sheetOrders'[i] = sheetOrders[i])

C25_HeaderThenOneRow == [][C25_Step]_vars

(***************************************************************************)
(* Failing store calls                                                     *)
(***************************************************************************)
\* the pipeline positions that wait for a call of the store
StoreCallSteps ==
    {"validate", "price", "log", "log_header", "log_append", "fetch", "find", "write"}

StoreFailure == [status |-> 500, error |-> "store"]

\* variant: the handler starts the pipeline again after a failed call
StoreCallFails_retries(r) ==
    /\ phase = "running" /\ activeService = "sheets"
    /\ pc[r] \in StoreCallSteps
    /\ Goto(r, "validate")
    /\ idx' = [idx EXCEPT ![r] = 1]
    /\ validation' = [validation EXCEPT ![r] = EmptyValidation]
    /\ lineItems' = [lineItems EXCEPT ![r] = <<>>]
    /\ UNCHANGED <<facadeVars, mockVars, sheetVars, kind, items, fetched,
                   order, lastCall>>

\* a remote call of the Spreadsheet Store rejects: the store rethrows, the
\* handler catches and answers with the error response; nothing is undone
StoreCallFails(r) ==
    /\ phase = "running" /\ activeService = "sheets"
    /\ pc[r] \in StoreCallSteps
    /\ Respond(r, StoreFailure.status, StoreFailure.error)
    /\ UNCHANGED <<facadeVars, mockVars, sheetVars, kind, items, idx,
                   validation, lineItems, fetched, order, lastCall>>

\* two concurrent one-item order requests whose store calls may fail
NextFail ==
    \/ \E its \in [1..1 -> ItemChoices] : Submit("r1", "order", its)
    \/ \E its \in [1..1 -> ItemChoices] : pc["r1"] # "idle" /\ Submit("r2", "order", its)
    \/ \E r \in Requests : RequestStep(r)
    \/ \E r \in Requests : StoreCallFails(r)

\* every pending continuation of a request is run by the event loop, and
\* every store call it waits for settles, by resolving or by rejecting
FairRequests ==
    \A r \in Requests : WF_vars(RequestStep(r) \/ StoreCallFails(r))

SpecFail == Init /\ [][NextFail]_vars /\ FairRequests

\* C26: every order request that arrived eventually ends with a response,
\* and with one only: a response once given never changes and an answered
\* request takes no further step; a failed store call answers its request at
\* once with the error response and changes neither the stores nor the
\* position or response of any other request.
C26_Step ==
    \A r \in Requests :
        /\ response[r] # NoResponse =>
               (response'[r] = response[r] /\ pc[r] = "done" /\ pc'[r] = "done")
        /\ StoreCallFails(r) =>
               /\ response'[r] = StoreFailure /\ pc'[r] = "done"
               /\ UNCHANGED <<mockVars, sheetVars>>
               /\ \A q \in Requests \ {r} :
                      pc'[q] = pc[q] /\ response'[q] = response[q]

ValidateEnds(r) ==
    /\ Mock_validateStep(r) \/ Sheets_validateStep(r)
    /\ pc'[r] # "validate"

C27_Step ==
    \A r \in Requests :
        (ValidateEnds(r) /\ validation'[r].valid) =>
            \A id \in ItemIds :
                Exists(id) => Units(items[r], id) <= ProductOf(id).stock

C27_ValidSumsPerProduct == [][C27_Step]_vars

\* C28: an order request that ends in an error response leaves the logged
\* orders and every product's stock as they were before the request (stated
\* for a request that ran alone, so that "before" is the initial state).
NoOrderRows ==
    /\ orders = <<>>
    /\ \A i \in 1..Len(sheetOrders) : sheetOrders[i].header

C29_Step ==
    \A r \in Requests :
        (Mock_validateStep(r) \/ Sheets_validateStep(r)) =>
            UNCHANGED <<products, orders, sheetRows, sheetOrders>>

C29_ValidateReadOnly == [][C29_Step]_vars

\* one validation passed and one was rejected for stock, the stores untouched
C29_PassedAndRejected ==
    \E r \in Requests : \E q \in Requests \ {r} :
        /\ pc[r] = "price" /\ validation[r].valid
        /\ Done(q) /\ ~validation[q].valid
        /\ activeService = "mock" /\ products = SeedProducts /\ orders = <<>>

\* C30: in every state of the facade the useGoogleSheets flag is true exactly
\* when the active store is the Spreadsheet Store, so getDataSourceInfo names
\* the store the calls go to; a switch changes neither the products nor the
\* orders of the Mock Store; and with the Spreadsheet Store active getOrders
\* answers the empty list and resetData answers false, the Mock Store untouched.
C30_FlagAgrees ==
    /\ useGoogleSheets <=> (activeService = "sheets")
    /\ (getDataSourceInfo.type = "Google Sheets") <=> (activeService = "sheets")
    /\ (getDataSourceInfo.type = "Mock Data") <=> (activeService = "mock")

C30_Step ==
    /\ (switchToGoogleSheets \/ switchToMockData) => UNCHANGED mockVars
    /\ (activeService = "sheets" /\ getOrders) =>
           (lastCall'.orders = <<>> /\ UNCHANGED mockVars)
    /\ (activeService = "sheets" /\ resetData) =>
           (lastCall'.result = "false" /\ UNCHANGED mockVars)

C30_FacadeConsistent == []C30_FlagAgrees /\ [][C30_Step]_vars

\* getOrders answered the empty list while the Mock Store, switched away
\* from, still holds an order
C30_SheetsHidesMockOrders ==
    /\ activeService = "sheets" /\ useGoogleSheets
    /\ orders # <<>>
    /\ lastCall.op = "getOrders" /\ lastCall.orders = <<>>

====
